---------------------------- MODULE Spec2Model ----------------------------
(***************************************************************************)
(* Model of backend/parallel_analyzer.py: the root rank loads a file,      *)
(* deals its records round-robin to `size` MPI ranks, every rank runs      *)
(* analyze_logs on its chunk, the root gathers, merges and writes the      *)
(* JSON artifact.                                                          *)
(*                                                                         *)
(* Text encoding.  A record (one line of the file) is a sequence of        *)
(* fields, a field is a sequence of tokens, a token is a string.  The      *)
(* line's text is its fields joined by "," with each field's tokens joined *)
(* by one space; <<>> is a blank line.  A tally key is a field (the text   *)
(* of the key is the field's text): <<"9.9.9.9">> is the key "9.9.9.9".    *)
(* The alphabet below holds no tab, semicolon, quote, doubled space,       *)
(* purely numeric field or pandas NA literal.                              *)
(***************************************************************************)
EXTENDS Integers, Sequences, FiniteSets, TLC

\* ------------------------------------------------------------------ bounds
MaxLines == 3
MaxSize == 3

\* --------------------------------------------------------------- alphabet
Marker == "Failed password for"

IPs == {"9.9.9.9", "5.5.5.5", "7.7.7.7", "8.8.8.8", "10.0.0.5", "1.1.1.1", "2.2.2.2"}

BlankLine == << >>

HeaderLine == << <<"SRC">>, <<"LABEL">> >>

RaggedLine ==
  << <<"7.7.7.7">>, <<Marker, "root", "from", "7.7.7.7">>, <<"8.8.8.8">> >>

CsvLines ==
  { HeaderLine,
    << <<"9.9.9.9">>, <<"BENIGN">> >>,
    << <<"9.9.9.9">>, <<"EXPLOIT">> >>,
    << <<"5.5.5.5">>, <<"EXPLOIT">> >>,
    RaggedLine }

FreeLines ==
  { << <<Marker, "root", "from", "10.0.0.5", "port", "22">> >>,
    << <<Marker, "root", "from", "10.0.0.5", "via", "1.1.1.1">> >>,
    << <<"seen", "1.1.1.1", "and", "2.2.2.2">> >>,
    << <<"session", "opened">> >> }

\* ------------------------------------------------------------- dictionaries
EmptyDict == [k \in {} |-> 0]

\* d[k] = d.get(k, 0) + 1
Inc(d, k) ==
  [x \in DOMAIN d \cup {k} |->
     IF x = k THEN (IF k \in DOMAIN d THEN d[k] + 1 ELSE 1) ELSE d[x]]

\* d[k] = c: the count of an earlier tally is overwritten, not added to
AddCountMutant(d, k, c) ==
  [x \in DOMAIN d \cup {k} |-> IF x = k THEN c ELSE d[x]]

\* d[k] = d.get(k, 0) + c
AddCount(d, k, c) ==
  [x \in DOMAIN d \cup {k} |->
     IF x = k THEN (IF k \in DOMAIN d THEN d[k] + c ELSE c) ELSE d[x]]

Min(a, b) == IF a < b THEN a ELSE b

Max(a, b) == IF a > b THEN a ELSE b

\* s[:n]
Take(s, n) == SubSeq(s, 1, Min(n, Len(s)))

\* s[-n:]
LastN(s, n) == SubSeq(s, Max(1, Len(s) - n + 1), Len(s))

\* All sequences over S of length at most n.
SeqsUpTo(S, n) == UNION { [1..k -> S] : k \in 0..n }

\* ------------------------------------------------------------ text of a line
\* The tokens of a line in text order, with "," where two fields meet.
RECURSIVE Flat(_)
Flat(line) ==
  IF line = << >> THEN << >>
  ELSE IF Len(line) = 1 THEN line[1]
  ELSE line[1] \o <<",">> \o Flat(Tail(line))

\* line.strip() is non-empty
NonBlank(line) == Flat(line) # << >>

\* re.findall(IP_REGEX, text): every token of the alphabet that has the shape
\* (?:\d{1,3}\.){3}\d{1,3} is a whole dotted quad, so the matches are the
\* IP tokens, in order, one per occurrence.
FindAllIPs(toks) == SelectSeq(toks, LAMBDA t : t \in IPs)

\* re.search(r"Failed password for.*from (IP)", line): the leftmost marker,
\* then the greedy .* runs to the last "from <IP>" after it.  The position of
\* the captured IP in the tokens, or 0 when the line does not match.
CapturePos(toks) ==
  LET marks == { i \in 1..Len(toks) : toks[i] = Marker }
      hits  == { j \in 2..Len(toks) :
                   /\ toks[j] \in IPs
                   /\ toks[j - 1] = "from"
                   /\ \E i \in marks : i < j - 1 }
  IN IF hits = {} THEN 0 ELSE CHOOSE j \in hits : \A k \in hits : k <= j

\* for ip in seq: d[ip] = d.get(ip, 0) + 1   (keys are one-token fields)
RECURSIVE IncAll(_, _)
IncAll(d, ips) ==
  IF ips = << >> THEN d ELSE IncAll(Inc(d, <<Head(ips)>>), Tail(ips))

\* ------------------------------------------------- analyze_logs, free-form
\* The loop body without its match branch: every IP of every line counts.
FreeFormLineMutant(d, line) == IncAll(d, FindAllIPs(Flat(line)))

\* One pass of the loop body at lines 151-159.
FreeFormLine(d, line) ==
  LET toks == Flat(line)
      m    == CapturePos(toks)
  IN IF m # 0 THEN Inc(d, <<toks[m]>>) ELSE IncAll(d, FindAllIPs(toks))

RECURSIVE FreeFormScan(_, _)
FreeFormScan(d, chunk) ==
  IF chunk = << >> THEN d
  ELSE FreeFormScan(FreeFormLine(d, Head(chunk)), Tail(chunk))

\* One pass of the except branch at lines 144-146: every IP-shaped substring
\* of the line is added to whatever suspicious_ips already holds.
ExceptLine(d, line) == IncAll(d, FindAllIPs(Flat(line)))

RECURSIVE ExceptScan(_, _)
ExceptScan(d, chunk) ==
  IF chunk = << >> THEN d
  ELSE ExceptScan(ExceptLine(d, Head(chunk)), Tail(chunk))

\* --------------------------------------------------- analyze_logs, sniffing
\* log_chunk[:10]
SampleSize == 10

\* `ch in sample`: of the characters the code asks about only the comma
\* occurs in the alphabet, where two fields of a line meet.
Contains(sample, ch) ==
  ch = "," /\ \E i \in 1..Len(sample) : Len(sample[i]) >= 2

\* re.search(r"\s{2,}", sample): tokens are joined by single spaces and no
\* line starts or ends with white space, so "\n".join(...) has no such run.
HasSpaceRun(sample) == FALSE

is_tabular(chunk) ==
  LET sample == Take(chunk, SampleSize)
  IN \/ Contains(sample, ",") \/ Contains(sample, "\t") \/ Contains(sample, ";")
     \/ HasSpaceRun(sample)

\* csv.Sniffer().sniff(sample): a character is a candidate when every line
\* of the sample holds it the same non-zero number of times, and "," is the
\* first preferred candidate.  In the alphabet lines with different numbers
\* of commas share no character with equal non-zero counts, so the sniffer
\* answers "," on evenly wide lines and raises otherwise.
SnifferDelimiter(sample) ==
  IF /\ sample # << >>
     /\ \A i \in 1..Len(sample) :
          Len(sample[i]) >= 2 /\ Len(sample[i]) = Len(sample[1])
  THEN "," ELSE "Error"

sniff_delimiter(sample) ==
  IF SnifferDelimiter(sample) # "Error" THEN SnifferDelimiter(sample)
  ELSE IF Contains(sample, "\t") THEN "\t"
  ELSE IF Contains(sample, ";") THEN ";"
  ELSE IF Contains(sample, ",") THEN ","
  ELSE "\\s+"

\* ----------------------------------------------------- pandas.read_csv
\* str(NaN): a missing cell reads back as the text "nan".
NaN == <<"nan">>

\* One line split at sep.  A separator other than "," does not occur in any
\* line, which then is a single field holding the whole text.
SplitLine(line, sep) == IF sep = "," THEN line ELSE << Flat(line) >>

\* read_csv(..., engine="python", header=0): the first line names the
\* columns; a first data line wider than the header makes its surplus
\* leading fields the index; a line wider than that raises ParserError;
\* a narrower line is padded with NaN.  No data at all raises too.
ReadCsv(chunk, sep) ==
  IF chunk = << >> THEN [ok |-> FALSE, columns |-> << >>, rows |-> << >>]
  ELSE
  LET recs == [i \in 1..Len(chunk) |-> SplitLine(chunk[i], sep)]
      h    == Len(recs[1])
      body == Tail(recs)
      k    == IF body # << >> /\ Len(body[1]) > h THEN Len(body[1]) - h ELSE 0
  IN IF \E i \in 1..Len(body) : Len(body[i]) > h + k
     THEN [ok |-> FALSE, columns |-> << >>, rows |-> << >>]
     ELSE [ok |-> TRUE, columns |-> recs[1],
           rows |-> [i \in 1..Len(body) |->
                       [c \in 1..h |->
                          IF c + k <= Len(body[i]) THEN body[i][c + k] ELSE NaN]]]

\* str(c).strip().isdigit()
DigitTokens == {"22"}

IsDigits(name) == Len(name) = 1 /\ name[1] \in DigitTokens

\* lines 107-111: generic names when every header cell is a number
NormalizeColumns(columns) ==
  IF \A c \in 1..Len(columns) : IsDigits(columns[c])
  THEN [c \in 1..Len(columns) |-> << "col" \o ToString(c - 1) >>]
  ELSE columns

\* ------------------------------------------------------ column inference
SrcSampleSize == 200

AttackSampleSize == 500

TailWidth == 6

IpQuota == 10

\* The column names of the alphabet whose lower-cased text contains one of
\* "src", "source", "sip", "src_ip", "source_ip".
SrcNamed == { <<"SRC">> }

\* ... one of "attack", "label", "cat", "class".
AttackNamed == { <<"LABEL">> }

\* Sum of a sequence of numbers.
RECURSIVE SumSeq(_)
SumSeq(s) == IF s = << >> THEN 0 ELSE Head(s) + SumSeq(Tail(s))

\* The cells of column c, top to bottom.
Column(df, c) == [i \in 1..Len(df.rows) |-> df.rows[i][c]]

\* Series.str.count(IP_REGEX) of one cell
IpCount(cell) == Len(FindAllIPs(cell))

\* re.match(r"^-?\d+(\.\d+)?$", text): the alphabet's numeric tokens
IsNumeric(cell) == Len(cell) = 1 /\ cell[1] \in DigitTokens

\* The least element of a non-empty set of numbers.
Least(S) == CHOOSE x \in S : \A y \in S : x <= y

Greatest(S) == CHOOSE x \in S : \A y \in S : y <= x

\* find_src_col: the position of the column it returns
find_src_col(df) ==
  LET n      == Len(df.columns)
      named  == { c \in 1..n : df.columns[c] \in SrcNamed }
      sample(c) == Take(Column(df, c), SrcSampleSize)
      count(c)  == SumSeq([i \in 1..Len(sample(c)) |-> IpCount(sample(c)[i])])
      quota(c)  == Max(1, Min(IpQuota, Len(sample(c)) \div 10))
      ipish  == { c \in 1..n : count(c) >= quota(c) }
  IN IF named # {} THEN Least(named)
     ELSE IF ipish # {} THEN Least(ipish)
     ELSE 1

\* find_attack_col: the position of the column it returns, 0 for None
find_attack_col(df) ==
  LET n      == Len(df.columns)
      named  == { c \in 1..n : df.columns[c] \in AttackNamed }
      tail   == { c \in 1..n : c > n - TailWidth }
      sample(c) == Take(Column(df, c), AttackSampleSize)
      textual == { c \in tail :
                     \E i \in 1..Len(sample(c)) : ~IsNumeric(sample(c)[i]) }
  IN IF named # {} THEN Least(named)
     ELSE IF textual # {} THEN Greatest(textual)
     ELSE 0

\* ---------------------------------------------------- analyze_logs, tabular
\* The cells whose lower-cased text is one of "0", "-", "normal", "benign",
\* "none", "".
BenignCells ==
  { <<"0">>, <<"-">>, <<"normal">>, <<"benign">>, <<"none">>, <<"BENIGN">> }

\* One pass of the loop body at lines 117-131.
TabularRow(d, row, src_col, attack_col) ==
  LET src_val == row[src_col]
  IN IF src_val = << >> \/ src_val = NaN THEN d
     ELSE IF attack_col # 0 /\ row[attack_col] # << >>
     THEN IF row[attack_col] \notin BenignCells THEN Inc(d, src_val) ELSE d
     ELSE LET tail == LastN(row, TailWidth)
          IN IF \E i \in 1..Len(tail) : tail[i] # << >> /\ ~IsNumeric(tail[i])
             THEN Inc(d, src_val) ELSE d

RECURSIVE TabularRows(_, _, _, _)
TabularRows(d, rows, src_col, attack_col) ==
  IF rows = << >> THEN d
  ELSE TabularRows(TabularRow(d, Head(rows), src_col, attack_col),
                   Tail(rows), src_col, attack_col)

\* lines 134-139: value_counts of the source column, kept when the value
\* starts with an IP and occurs more than once
FrequencyFallback(df, src_col) ==
  LET col  == Column(df, src_col)
      vals == { col[i] : i \in 1..Len(col) }
      cnt(v) == Cardinality({ i \in 1..Len(col) : col[i] = v })
      keep == { v \in vals : v # << >> /\ v[1] \in IPs /\ cnt(v) > 1 }
  IN [v \in keep |-> cnt(v)]

\* lines 107-139 on a parsed frame
TabularScan(frame) ==
  LET df == [frame EXCEPT !.columns = NormalizeColumns(frame.columns)]
      src_col    == find_src_col(df)
      attack_col == find_attack_col(df)
      d == TabularRows(EmptyDict, df.rows, src_col, attack_col)
  IN IF DOMAIN d = {} THEN FrequencyFallback(df, src_col) ELSE d

\* The try block at lines 99-139: whether it raised, and suspicious_ips as it
\* stood when the block ended or raised.  read_csv is the one statement of
\* the block that raises on a chunk of the alphabet, and it runs before any
\* row is counted, so a raise leaves suspicious_ips as line 92 made it.
TabularAttempt(log_chunk) ==
  LET sep == sniff_delimiter(Take(log_chunk, SampleSize))
      df  == ReadCsv(log_chunk, sep)
  IN IF df.ok THEN [raised |-> FALSE, tally |-> TabularScan(df)]
     ELSE [raised |-> TRUE, tally |-> EmptyDict]

\* analyze_logs(log_chunk): the except branch at lines 141-146 does not reset
\* suspicious_ips, it adds to what the try block left in it.
analyze_logs(log_chunk) ==
  IF is_tabular(log_chunk)
  THEN LET attempt == TabularAttempt(log_chunk)
       IN IF attempt.raised THEN ExceptScan(attempt.tally, log_chunk)
          ELSE attempt.tally
  ELSE FreeFormScan(EmptyDict, log_chunk)

\* ------------------------------------------------------------------ main
VARIABLES
  file,         \* the input: [ext, readable, lines]
  size,         \* comm.Get_size()
  pc,           \* each rank's position in main()
  logs,         \* root: load_data's return value
  chunks,       \* root: chunks[r + 1] is rank r's partition
  delivered,    \* delivered[r]: the scatter has handed rank r its partition
  log_chunk,    \* each rank's partition
  result,       \* each rank's tally
  submitted,    \* submitted[r]: rank r's tally has arrived at the gather
  all_results,  \* root: the gathered tallies, by rank
  final,        \* root: the merged tally, then the document to write
  disk          \* results/analysis_result.json: [state, doc]

vars == << file, size, pc, logs, chunks, delivered, log_chunk, result,
           submitted, all_results, final, disk >>

Ranks == 0..(size - 1)

\* {"message": "No suspicious IPs or attack patterns detected."}
Sentinel ==
  [k \in { <<"message">> } |-> "No suspicious IPs or attack patterns detected."]

\* The files of the input domain: delimited text, line-oriented text (each
\* possibly with blank lines), an unreadable file and an unknown extension.
Files ==
  [ext : {".csv"}, readable : {TRUE},
   lines : SeqsUpTo(CsvLines \cup {BlankLine}, MaxLines)]
  \cup
  [ext : {".log"}, readable : {TRUE},
   lines : SeqsUpTo(FreeLines \cup {BlankLine}, MaxLines)]
  \cup
  { [ext |-> ".log", readable |-> FALSE, lines |-> << >>],
    [ext |-> ".exe", readable |-> TRUE, lines |-> << >>] }

\* load_data on the files above: the lines that are not blank, or ok = FALSE
\* for the RuntimeError raised on an unknown extension or a failed read.
\* (Spreadsheet and JSON sources are not among the files of the input domain.)
load_data(f) ==
  IF f.ext \in {".csv", ".log", ".txt"}
  THEN IF f.readable
       THEN [ok |-> TRUE, lines |-> SelectSeq(f.lines, NonBlank)]
       ELSE [ok |-> FALSE, lines |-> << >>]
  ELSE [ok |-> FALSE, lines |-> << >>]

\* A slice whose stride is one too long.
RECURSIVE SliceMutant(_, _, _)
SliceMutant(s, start, step) ==
  IF start >= Len(s) THEN << >>
  ELSE << s[start + 1] >> \o SliceMutant(s, start + step + 1, step)

\* s[start::step]
RECURSIVE Slice(_, _, _)
Slice(s, start, step) ==
  IF start >= Len(s) THEN << >>
  ELSE << s[start + 1] >> \o Slice(s, start + step, step)

\* line 176: [logs[i::size] for i in range(size)]
Partition(records, n) == [i \in 1..n |-> Slice(records, i - 1, n)]

\* lines 186-188 for one gathered tally r: final[ip] = final.get(ip, 0) + c
RECURSIVE MergeOne(_, _)
MergeOne(acc, r) ==
  IF DOMAIN r = {} THEN acc
  ELSE LET ip == CHOOSE k \in DOMAIN r : TRUE
       IN MergeOne(AddCount(acc, ip, r[ip]),
                   [k \in DOMAIN r \ {ip} |-> r[k]])

\* lines 185-188: the loop over all_results, in order
RECURSIVE Merge(_, _)
Merge(acc, tallies) ==
  IF tallies = << >> THEN acc
  ELSE Merge(MergeOne(acc, Head(tallies)), Tail(tallies))

\* The substitution with its test inverted.
FinalizeMutant(merged) == IF DOMAIN merged = {} THEN merged ELSE Sentinel

\* lines 190-191: if not final: final = {"message": ...}
Finalize(merged) == IF DOMAIN merged = {} THEN Sentinel ELSE merged

Init ==
  /\ file \in Files
  /\ size \in 1..MaxSize
  /\ pc = [r \in Ranks |-> IF r = 0 THEN "load" ELSE "scatter"]
  /\ logs = << >>
  /\ chunks = << >>
  /\ delivered = [r \in Ranks |-> FALSE]
  /\ log_chunk = [r \in Ranks |-> << >>]
  /\ result = [r \in Ranks |-> EmptyDict]
  /\ submitted = [r \in Ranks |-> FALSE]
  /\ all_results = << >>
  /\ final = EmptyDict
  /\ disk \in { [state |-> "absent", doc |-> EmptyDict],
                [state |-> "complete", doc |-> Sentinel] }

\* lines 169-176 on the root: load, the early return, the partitioning
RootLoad ==
  /\ pc[0] = "load"
  /\ LET loaded == load_data(file)
     IN IF ~loaded.ok
        THEN /\ pc' = [pc EXCEPT ![0] = "failed_load"]
             /\ UNCHANGED << logs, chunks >>
        ELSE IF loaded.lines = << >>
        THEN /\ pc' = [pc EXCEPT ![0] = "returned"]
             /\ logs' = loaded.lines
             /\ UNCHANGED chunks
        ELSE /\ pc' = [pc EXCEPT ![0] = "scatter"]
             /\ logs' = loaded.lines
             /\ chunks' = Partition(loaded.lines, size)
  /\ UNCHANGED << file, size, delivered, log_chunk, result, submitted,
                  all_results, final, disk >>

\* line 180 on the root: every partition is handed out, the root keeps its own
RootScatter ==
  /\ pc[0] = "scatter"
  /\ delivered' = [r \in Ranks |-> TRUE]
  /\ log_chunk' = [log_chunk EXCEPT ![0] = chunks[1]]
  /\ pc' = [pc EXCEPT ![0] = "analyze"]
  /\ UNCHANGED << file, size, logs, chunks, result, submitted, all_results,
                  final, disk >>

\* comm.scatter returns on rank r once its partition is there
CanReceive(r) == delivered[r]

\* line 180 on another rank
RecvScatter(r) ==
  /\ r # 0
  /\ pc[r] = "scatter"
  /\ CanReceive(r)
  /\ log_chunk' = [log_chunk EXCEPT ![r] = chunks[r + 1]]
  /\ pc' = [pc EXCEPT ![r] = "analyze"]
  /\ UNCHANGED << file, size, logs, chunks, delivered, result, submitted,
                  all_results, final, disk >>

\* line 181
Analyze(r) ==
  /\ pc[r] = "analyze"
  /\ result' = [result EXCEPT ![r] = analyze_logs(log_chunk[r])]
  /\ pc' = [pc EXCEPT ![r] = "gather"]
  /\ UNCHANGED << file, size, logs, chunks, delivered, log_chunk, submitted,
                  all_results, final, disk >>

\* line 182 on another rank: the tally is sent, gather returns None, main ends
SendGather(r) ==
  /\ r # 0
  /\ pc[r] = "gather"
  /\ submitted' = [submitted EXCEPT ![r] = TRUE]
  /\ pc' = [pc EXCEPT ![r] = "done"]
  /\ UNCHANGED << file, size, logs, chunks, delivered, log_chunk, result,
                  all_results, final, disk >>

\* A gather that does not wait.
GatherCompleteMutant == TRUE

\* comm.gather returns on the root once every other rank's tally is there
GatherComplete == \A r \in Ranks \ {0} : submitted[r]

\* line 182 on the root
RootGather ==
  /\ pc[0] = "gather"
  /\ GatherComplete
  /\ submitted' = [submitted EXCEPT ![0] = TRUE]
  /\ all_results' = [i \in 1..size |-> result[i - 1]]
  /\ pc' = [pc EXCEPT ![0] = "merge"]
  /\ UNCHANGED << file, size, logs, chunks, delivered, log_chunk, result,
                  final, disk >>

\* lines 185-188
RootMerge ==
  /\ pc[0] = "merge"
  /\ final' = Merge(EmptyDict, all_results)
  /\ pc' = [pc EXCEPT ![0] = "finalize"]
  /\ UNCHANGED << file, size, logs, chunks, delivered, log_chunk, result,
                  submitted, all_results, disk >>

\* lines 190-191
RootFinalize ==
  /\ pc[0] = "finalize"
  /\ final' = Finalize(final)
  /\ pc' = [pc EXCEPT ![0] = "open"]
  /\ UNCHANGED << file, size, logs, chunks, delivered, log_chunk, result,
                  submitted, all_results, disk >>

\* line 195: open(result_path, "w") truncates the artifact
RootOpen ==
  /\ pc[0] = "open"
  /\ disk' = [state |-> "incomplete", doc |-> EmptyDict]
  /\ pc' = [pc EXCEPT ![0] = "dump"]
  /\ UNCHANGED << file, size, logs, chunks, delivered, log_chunk, result,
                  submitted, all_results, final >>

\* lines 196-198: json.dump and the close at the end of the with block
RootDump ==
  /\ pc[0] = "dump"
  /\ disk' = [state |-> "complete", doc |-> final]
  /\ pc' = [pc EXCEPT ![0] = "done"]
  /\ UNCHANGED << file, size, logs, chunks, delivered, log_chunk, result,
                  submitted, all_results, final >>

\* line 196 raising (an OSError of the file system): the exception leaves
\* main() with the artifact as the truncation and the flushed prefix left it
RootDumpError ==
  /\ pc[0] = "dump"
  /\ pc' = [pc EXCEPT ![0] = "failed_write"]
  /\ UNCHANGED << file, size, logs, chunks, delivered, log_chunk, result,
                  submitted, all_results, final, disk >>

Next ==
  \/ RootLoad
  \/ RootScatter
  \/ \E r \in Ranks : RecvScatter(r)
  \/ \E r \in Ranks : Analyze(r)
  \/ \E r \in Ranks : SendGather(r)
  \/ RootGather
  \/ RootMerge
  \/ RootFinalize
  \/ RootOpen
  \/ RootDump
  \/ RootDumpError

Spec == Init /\ [][Next]_vars

\* lines 176-191 as one function of the loaded records and the worker count
RunScan(records, n) ==
  LET parts == Partition(records, n)
  IN Finalize(Merge(EmptyDict, [i \in 1..n |-> analyze_logs(parts[i])]))

\* ---------------------------------------------------------------- claims
\* Positions of main() after the rank's own analyze_logs call has begun.
Detecting == {"analyze", "gather", "done", "merge", "finalize", "open", "dump",
              "failed_write"}

\* Positions of the root after comm.gather has returned.
PastGather == {"merge", "finalize", "open", "dump", "done", "failed_write"}

\* Positions of a rank whose tally is computed.
Analyzed == Detecting \ {"analyze"}

\* The number of tokens of a line equal to ip.
Occurrences(line, ip) ==
  Cardinality({ i \in 1..Len(Flat(line)) : Flat(line)[i] = ip })

\* The tally that maps each IP to the sum over the records of
\* weight[i, ip], with the IPs of sum zero left out.
SumTally(chunk, weight) ==
  LET total(ip) == SumSeq([i \in 1..Len(chunk) |-> weight[i, ip]])
  IN [k \in { <<ip>> : ip \in { x \in IPs : total(x) > 0 } } |-> total(k[1])]

\* The per-record contribution of section 4.6: a matching record counts its
\* captured IP once, another record counts each IP once per occurrence.
FreeFormWeight(chunk) ==
  [i \in 1..Len(chunk), ip \in IPs |->
     LET toks == Flat(chunk[i])
     IN IF CapturePos(toks) # 0
        THEN (IF toks[CapturePos(toks)] = ip THEN 1 ELSE 0)
        ELSE Occurrences(chunk[i], ip)]

\* The keys of a sequence of tallies, and the sum of one key over them.
KeysOf(tallies) == UNION { DOMAIN tallies[i] : i \in 1..Len(tallies) }

KeySum(tallies, k) ==
  SumSeq([i \in 1..Len(tallies) |->
            IF k \in DOMAIN tallies[i] THEN tallies[i][k] ELSE 0])

\* The partition was classified as tabular and the tabular attempt raised.
ParseFailed(chunk) == is_tabular(chunk) /\ TabularAttempt(chunk).raised

\* C1: the document the root ends with is the one every other worker count
\* yields on the same records.
C1_WorkerCountIndependent ==
  pc[0] = "done" => \A n \in 1..MaxSize : final = RunScan(logs, n)

\* C2: there are exactly `size` partitions, the record at 0-based index i is
\* partition (i mod size)'s element number (i div size), and the partitions
\* hold as many records as were loaded, so each index is in one partition once.
C2_RoundRobinPartition ==
  chunks # << >> =>
    /\ Len(chunks) = size
    /\ \A i \in 0..(Len(logs) - 1) :
         /\ Len(chunks[(i % size) + 1]) >= (i \div size) + 1
         /\ chunks[(i % size) + 1][(i \div size) + 1] = logs[i + 1]
    /\ SumSeq([r \in 1..size |-> Len(chunks[r])]) = Len(logs)

C2_Witness ==
  /\ chunks # << >>
  /\ size = 2
  /\ Len(logs) = 3
  /\ logs[1] # logs[2] /\ logs[2] # logs[3] /\ logs[1] # logs[3]

\* C3: the merged tally has exactly the keys of the gathered tallies, each
\* with the sum of its counts, and merging the gathered tallies in any other
\* order gives the same mapping.
C3_MergeSumsAnyOrder ==
  pc[0] = "finalize" =>
    /\ DOMAIN final = KeysOf(all_results)
    /\ \A k \in DOMAIN final : final[k] = KeySum(all_results, k)
    /\ \A p \in Permutations(1..size) :
         Merge(EmptyDict, [i \in 1..size |-> all_results[p[i]]]) = final

C3_Witness ==
  /\ pc[0] = "finalize"
  /\ size >= 2
  /\ \E k \in DOMAIN final :
       /\ k \in DOMAIN all_results[1] /\ k \in DOMAIN all_results[2]
       /\ final[k] >= 3
  /\ all_results[1] # all_results[2]

\* C4: a rank that has begun detection has been handed its partition, and
\* the root is past the gather only when every rank has submitted its tally.
C4_ScatterGatherBarriers ==
  /\ \A r \in Ranks :
       pc[r] \in Detecting =>
         /\ delivered[r]
         /\ log_chunk[r] = chunks[r + 1]
  /\ pc[0] \in PastGather =>
       \A r \in Ranks : submitted[r] /\ all_results[r + 1] = result[r]

C4_Witness ==
  /\ size = 3
  /\ pc[0] = "merge"
  /\ \A r \in Ranks : log_chunk[r] # << >>

\* C5: once the root has left main() after a load without error, every rank
\* has finished and the artifact of this run is on disk.
C5_ScanLeavesOneArtifact ==
  pc[0] \in {"returned", "done"} =>
    /\ \A r \in Ranks : pc[r] \in {"returned", "done"}
    /\ disk = [state |-> "complete", doc |-> final]
    /\ (DOMAIN final # {})

\* C6: when the root's load has failed and nothing more can happen, no rank
\* is waiting at the scatter or the gather and no artifact was written.
C6_FailFastAbort ==
  (pc[0] = "failed_load" /\ ~ENABLED Next) =>
    /\ \A r \in Ranks : pc[r] \notin {"scatter", "gather"}
    /\ disk.state # "incomplete"

\* C7: the artifact the root has written is the sentinel exactly when the
\* merge of the gathered tallies is empty, and is that merge otherwise; a
\* "message" key is there only as the sentinel.
C7_SentinelLaw ==
  pc[0] = "done" =>
    /\ disk.state = "complete"
    /\ (disk.doc = Sentinel) <=> (KeysOf(all_results) = {})
    /\ KeysOf(all_results) # {} =>
         /\ DOMAIN disk.doc = KeysOf(all_results)
         /\ \A k \in DOMAIN disk.doc : disk.doc[k] = KeySum(all_results, k)
    /\ <<"message">> \in DOMAIN disk.doc => disk.doc = Sentinel

C7_Witness ==
  /\ pc[0] = "done"
  /\ disk.doc # Sentinel
  /\ Cardinality(DOMAIN disk.doc) >= 2

C7_WitnessSentinel ==
  /\ pc[0] = "done"
  /\ disk.doc = Sentinel
  /\ logs # << >>

\* C8: the tally of a partition classified as free-form is the sum of the
\* per-record contributions.
C8_FreeFormTally ==
  \A r \in Ranks :
    (pc[r] \in Analyzed /\ ~is_tabular(log_chunk[r])) =>
      result[r] = SumTally(log_chunk[r], FreeFormWeight(log_chunk[r]))

C8_Witness ==
  \E r \in Ranks :
    /\ pc[r] \in Analyzed
    /\ ~is_tabular(log_chunk[r])
    /\ \E i, j \in 1..Len(log_chunk[r]) :
         /\ CapturePos(Flat(log_chunk[r][i])) # 0
         /\ Len(FindAllIPs(Flat(log_chunk[r][i]))) = 2
         /\ CapturePos(Flat(log_chunk[r][j])) = 0
         /\ Len(FindAllIPs(Flat(log_chunk[r][j]))) = 2
    /\ result[r] = ( <<"10.0.0.5">> :> 1 @@ <<"1.1.1.1">> :> 1
                     @@ <<"2.2.2.2">> :> 1 )

\* C9: the artifact on disk is never an empty or partly written document.
C9_AtomicOverwrite == disk.state \in {"absent", "complete"}

\* C10: the tally of a partition whose tabular parse failed is the free-form
\* detector's tally of the raw partition.
C10_FallbackIsFreeForm ==
  \A r \in Ranks :
    (pc[r] \in Analyzed /\ ParseFailed(log_chunk[r])) =>
      result[r] = SumTally(log_chunk[r], FreeFormWeight(log_chunk[r]))

=============================================================================
